---- MODULE Spec2Model ----
(***************************************************************************)
(* The SQLite task queue of backend/task_queue.py and its single worker     *)
(* loop.  Each SQL statement is one atomic step; the web process may run    *)
(* add_task between any two statements of the worker.                       *)
(***************************************************************************)
EXTENDS Integers, Sequences, FiniteSets, TLC

\* Bounds of the model.
MaxTasks == 2
MaxClock == 1
\* Bounds of the scraped site and of the target of a scraper run.
MaxCards == 3
MaxPages == 2
MaxTarget == 2
MaxRecords == 2
MaxReports == 2
MaxRuns == 2
\* Bounds of the page height (in hundreds of pixels) and of the scraper runs
\* made one after another.
MaxHeight == 12
MaxAttempts == 2

\* "if task["retries"] < 3" in run_worker.
MaxRetries == 3

NULL == "NULL"

\* None, as the value of run_worker's local "task" (ids start at 1).
NoTask == [id |-> 0, task_type |-> NULL, payload |-> NULL, retries |-> 0]

PENDING == "pending"
PROCESSING == "processing"
COMPLETED == "completed"
FAILED == "failed"

TaskStatus == {PENDING, PROCESSING, COMPLETED, FAILED}

\* The task types add_task may be given: the one run_worker handles and any other.
TaskTypes == {"scrape_and_report", "other"}

\* Order ids carried in the payload.
Orders == {"o1"}

VARIABLES
    tasks,      \* the rows of table tasks: id -> row
    seq,        \* sqlite_sequence of tasks (AUTOINCREMENT)
    clock,      \* CURRENT_TIMESTAMP, in seconds
    pc,         \* the position of run_worker
    task,       \* run_worker's local "task" (the dict get_pending_task returned);
                \* NoTask between iterations, where the loop never reads it
    attempts,   \* history: id -> number of times the row was set to processing
    outcomes,   \* history: id -> the outcomes of the handler runs, in order
    step,       \* the position of process_scrape_task in the running attempt
    trail,      \* history: the steps the running attempt has finished, in order
    orders,     \* the rows of table orders: order id -> status and report_id
    sent        \* history: id -> the emails the attempts of the task have sent

\* One TripAdvisorScraper instance and its run().
VARIABLES
    reports,         \* the rows of table reports, in rowid order
    uuids,           \* the number of report ids made so far (uuid4)
    records,         \* the reviews the scrape of an order returns
    summaries,       \* history: order -> what each report step left, in order
    attempt,         \* history: the number of scraper instances made so far
    left,            \* history: the instance before this one raised, holding
                     \* records and cached locations
    total_height,    \* the local of quick_scroll: document.body.scrollHeight
    current,         \* the local of quick_scroll: the scroll position
    lookup,          \* history: the last get_user_location_fast of this page
    phases,          \* history: the states of the run entered so far
    naps,            \* history: the delays made by the last step of the run
    ad_seen,         \* what close_ad_popup found for each selector tried so far;
                     \* kept until run() goes on to quick_scroll
    clicks,          \* history: the selectors whose close control was clicked
    site,            \* the kind of review cards the scraped site shows
    location_cache,  \* self.location_cache: href -> location
    visits,          \* history: href -> number of profile pages opened for it
    spc,             \* the position of TripAdvisorScraper.run
    max_reviews,     \* self.max_reviews
    reviews,         \* self.reviews
    reviews_on_page, \* the local list of scrape_page
    page,            \* the local page counter of run
    shown,           \* the page of the site the browser shows
    cards,           \* len(review_cards) of the page being scraped
    dom,             \* history: the cards of this page the loop has reached
    seen,            \* history: the number of cards found on the pages so far
    session,         \* the browser session: "ok" or "dead"
    control,         \* history: what the last go_to_next_page found
    failedAt,        \* history: where the session failed first
    ending,          \* history: which break ended the page loop
    outcome          \* how run() ended: "returned" or "raised"

\* Table orders and the emails sent.
ovars == <<orders, sent>>

wvars == <<tasks, seq, clock, pc, task, attempts, outcomes, step, trail, ovars>>

\* The location cache and the history of the profile visits.
cvars == <<location_cache, visits>>

\* The histories of the states entered, of the delays and of the ad dismissal.
hvars == <<phases, naps, ad_seen, clicks>>

\* The locals of quick_scroll.
qvars == <<total_height, current>>

svars == <<spc, max_reviews, reviews, reviews_on_page, page, shown, cards, dom,
           seen, session, control, failedAt, ending, outcome, site, cvars, hvars,
           qvars, lookup, attempt, left>>

\* Table reports and the records handed to the report step.
rvars == <<reports, uuids, records, summaries>>

vars == <<wvars, svars, rvars>>

Ids == DOMAIN tasks

----------------------------------------------------------------------------
\* Variant of NewRow: the retries column defaults to 1.
NewRowRetriesOne(type, payload, now) ==
    [task_type |-> type, payload |-> payload, status |-> PENDING,
     result |-> NULL, error |-> NULL, created_at |-> now, retries |-> 1]

\* CREATE TABLE tasks: the column defaults of a freshly inserted row.
NewRow(type, payload, now) ==
    [task_type |-> type, payload |-> payload, status |-> PENDING,
     result |-> NULL, error |-> NULL, created_at |-> now, retries |-> 0]

\* INSERT INTO tasks: AUTOINCREMENT hands out sqlite_sequence + 1.
InsertTask(ts, s, type, payload, now) ==
    [i \in (DOMAIN ts) \cup {s + 1} |->
        IF i = s + 1 THEN NewRow(type, payload, now) ELSE ts[i]]

\* Variant of PendingFirst: the query without its WHERE clause.
AnyStatusFirst(ts) ==
    {i \in DOMAIN ts :
        \A j \in DOMAIN ts : ts[i].created_at <= ts[j].created_at}

\* Variant of PendingFirst: rows that were tried before are left out
\* (WHERE status = 'pending' AND retries = 0).
PendingFirstUntried(ts) ==
    {i \in DOMAIN ts :
        /\ ts[i].status = PENDING /\ ts[i].retries = 0
        /\ \A j \in DOMAIN ts :
              (ts[j].status = PENDING /\ ts[j].retries = 0) =>
                  ts[i].created_at <= ts[j].created_at}

\* SELECT ... WHERE status = 'pending' ORDER BY created_at ASC LIMIT 1:
\* the rows the query may return.  Rows with equal created_at are in no
\* defined order, so each of them may be the first.
PendingFirst(ts) ==
    {i \in DOMAIN ts :
        /\ ts[i].status = PENDING
        /\ \A j \in DOMAIN ts :
              ts[j].status = PENDING => ts[i].created_at <= ts[j].created_at}

\* The dict get_pending_task builds from the row.
TaskDict(ts, i) ==
    [id |-> i, task_type |-> ts[i].task_type, payload |-> ts[i].payload,
     retries |-> ts[i].retries]

\* Variant of update_task_status: retries counts the attempts, it is
\* incremented when the row is set to processing too.
update_task_status_countAttempts(ts, id, status, result, error) ==
    [i \in DOMAIN ts |->
        IF i # id THEN ts[i]
        ELSE IF status = PROCESSING
             THEN [ts[i] EXCEPT !.status = status, !.retries = @ + 1]
        ELSE IF status = COMPLETED
             THEN [ts[i] EXCEPT !.status = status, !.result = result]
        ELSE IF status = FAILED
             THEN [ts[i] EXCEPT !.status = status, !.error = error,
                                !.retries = @ + 1]
        ELSE ts[i]]

\* Variant of update_task_status: the completed update writes the result and
\* leaves the status as it is.
update_task_status_completedKeepsStatus(ts, id, status, result, error) ==
    [i \in DOMAIN ts |->
        IF i # id THEN ts[i]
        ELSE IF status = PROCESSING THEN [ts[i] EXCEPT !.status = status]
        ELSE IF status = COMPLETED THEN [ts[i] EXCEPT !.result = result]
        ELSE IF status = FAILED
             THEN [ts[i] EXCEPT !.status = status, !.error = error,
                                !.retries = @ + 1]
        ELSE ts[i]]

\* Variant of update_task_status: the failed update adds its error to the one
\* the row has.
update_task_status_stacksErrors(ts, id, status, result, error) ==
    [i \in DOMAIN ts |->
        IF i # id THEN ts[i]
        ELSE IF status = PROCESSING THEN [ts[i] EXCEPT !.status = status]
        ELSE IF status = COMPLETED
             THEN [ts[i] EXCEPT !.status = status, !.result = result]
        ELSE IF status = FAILED
             THEN [ts[i] EXCEPT !.status = status,
                                !.error = IF @ = NULL THEN error
                                          ELSE @ \o "; " \o error,
                                !.retries = @ + 1]
        ELSE ts[i]]

\* update_task_status(task_id, status, result, error): UPDATE ... WHERE id = ?
update_task_status(ts, id, status, result, error) ==
    [i \in DOMAIN ts |->
        IF i # id THEN ts[i]
        ELSE IF status = PROCESSING THEN [ts[i] EXCEPT !.status = status]
        ELSE IF status = COMPLETED
             THEN [ts[i] EXCEPT !.status = status, !.result = result]
        ELSE IF status = FAILED
             THEN [ts[i] EXCEPT !.status = status, !.error = error,
                                !.retries = @ + 1]
        ELSE ts[i]]

\* Variant of RetryAllowed: one retry only.
RetryAllowedOnce(t) == t.retries < 1

\* "if task["retries"] < 3": the test on the dict read at dequeue time.
RetryAllowed(t) == t.retries < MaxRetries

\* Variant of SetPending: the requeue starts the row afresh, without the error
\* of the failed attempt.
SetPending_clearsError(ts, id) ==
    [i \in DOMAIN ts |->
        IF i = id THEN [ts[i] EXCEPT !.status = PENDING, !.error = NULL] ELSE ts[i]]

\* UPDATE tasks SET status = 'pending' WHERE id = ?
SetPending(ts, id) ==
    [i \in DOMAIN ts |-> IF i = id THEN [ts[i] EXCEPT !.status = PENDING] ELSE ts[i]]

\* Variant of AfterTask: the loop sleeps after every iteration.
AfterTask_sleeps == "sleep"

\* Where the loop goes after the "if task:" branch: the sleep is in the else
\* branch, so the next statement is get_pending_task() of the next iteration.
AfterTask == "poll"

\* The string process_scrape_task returns.
HandlerResult == "Success: report"

\* Where the handler of a task of the given type starts: the scraper run, or
\* the else branch of the dispatch on task_type.
FirstStep(type) == IF type = "scrape_and_report" THEN "scrape" ELSE "unknown"

\* Variant of NextStep: the email is sent before the report is generated.
NextStepEmailFirst(s) ==
    CASE s = "scrape" -> "email"
      [] s = "email" -> "report"
      [] s = "report" -> "order"
      [] s = "order" -> "return"

\* The statements of process_scrape_task in the order of its code: 1. run the
\* scraper (and save the CSV), 2. generate the report, 3. send the email,
\* 4. update the order, then return.
NextStep(s) ==
    CASE s = "scrape" -> "report"
      [] s = "report" -> "email"
      [] s = "email" -> "order"
      [] s = "order" -> "return"

\* An exception the handler may raise at each step (re-raised unchanged by the
\* except clause of process_scrape_task).
HandlerExc(s) ==
    CASE s = "unknown" -> [kind |-> "ValueError", message |-> "Unknown task type: other"]
      [] s = "scrape" -> [kind |-> "WebDriverException", message |-> "chrome not reachable"]
      [] s = "report" -> [kind |-> "OperationalError", message |-> "database is locked"]
      [] s = "email" -> [kind |-> "Exception", message |-> "Failed to send email: error"]
      [] s = "order" -> [kind |-> "OperationalError", message |-> "database is locked"]

\* The classes "except Exception" catches: every class the handler raises
\* derives from Exception.
ExceptionClasses ==
    {"Exception", "ValueError", "WebDriverException", "OperationalError"}

\* Variant of Catches: the worker catches ValueError only.
CatchesValueError(e) == e.kind = "ValueError"

\* except Exception as e
Catches(e) == e.kind \in ExceptionClasses

\* Variant of error_msg: the message without the kind.
error_msg_messageOnly(e) == e.message

\* error_msg = f"{type(e).__name__}: {str(e)}"
error_msg(e) == e.kind \o ": " \o e.message

\* An order that is not in table orders.
NoOrder == [status |-> "none", report_id |-> NULL, stripe_session_id |-> NULL]

\* The row start_scrape inserts: INSERT INTO orders ... 'processing', without
\* a checkout session.
OrderStarted ==
    [status |-> "processing", report_id |-> NULL, stripe_session_id |-> NULL]

\* The row create_checkout inserts: 'pending', with the id of the session.
OrderCheckout ==
    [status |-> "pending", report_id |-> NULL, stripe_session_id |-> "session"]

\* stripe_webhook, checkout.session.completed: UPDATE orders SET status =
\* 'paid', ... WHERE stripe_session_id = ?
OrderPaid(order) == [order EXCEPT !.status = "paid"]

\* Variant of OrderCompleted: the report_id is left as it is.
OrderCompleted_statusOnly(order) == [order EXCEPT !.status = "completed"]

\* "UPDATE orders SET status = 'completed', report_id = ? WHERE id = ?": no
\* row is changed when the order does not exist.
OrderCompleted(order) ==
    IF order = NoOrder THEN order
    ELSE [order EXCEPT !.status = "completed", !.report_id = "report"]

----------------------------------------------------------------------------
\* No get_user_location_fast has been called for a card of the page.
NoLookup ==
    [inline |-> NULL, href |-> NULL, cached |-> FALSE, visit |-> "none",
     location |-> NULL, before |-> [h \in {} |-> ""]]

\* No instance was made before this one.
NoInstance == FALSE

\* No scraper instance exists.
ScraperOff ==
    /\ attempt = 0
    /\ left = NoInstance
    /\ total_height = 0
    /\ current = 0
    /\ lookup = NoLookup
    /\ phases = <<>>
    /\ naps = <<>>
    /\ ad_seen = <<>>
    /\ clicks = <<>>
    /\ site = "none"
    /\ location_cache = [h \in {} |-> ""]
    /\ visits = [h \in {} |-> 0]
    /\ spc = "off"
    /\ max_reviews = 0
    /\ reviews = <<>>
    /\ reviews_on_page = <<>>
    /\ page = 0
    /\ shown = 0
    /\ cards = 0
    /\ dom = <<>>
    /\ seen = 0
    /\ session = "ok"
    /\ control = "none"
    /\ failedAt = "none"
    /\ ending = "none"
    /\ outcome = "none"

\* The worker before its first poll, the table empty.
WorkerStart ==
    /\ tasks = <<>>
    /\ seq = 0
    /\ clock = 0
    /\ pc = "poll"
    /\ task = NoTask
    /\ attempts = <<>>
    /\ outcomes = <<>>
    /\ step = "idle"
    /\ trail = <<>>
    /\ sent = <<>>

\* init_db: table orders is empty.
NoOrders == orders = [o \in Orders |-> NoOrder]

\* No report exists and no report step has run.
ReportOff ==
    /\ reports = <<>>
    /\ uuids = 0
    /\ records = <<>>
    /\ summaries = [o \in {} |-> <<>>]

Init == WorkerStart /\ NoOrders /\ ScraperOff /\ ReportOff

\* Time passes.
Tick ==
    /\ clock < MaxClock
    /\ clock' = clock + 1
    /\ UNCHANGED <<tasks, seq, pc, task, attempts, outcomes>>
    /\ UNCHANGED <<step, trail>>
    /\ UNCHANGED <<svars, rvars, ovars>>

\* The INSERT of add_task(task_type, payload), called by the web process.
Enqueue(type, payload) ==
    /\ seq < MaxTasks
    /\ tasks' = InsertTask(tasks, seq, type, payload, clock)
    /\ seq' = seq + 1
    /\ attempts' = [i \in DOMAIN tasks' |-> IF i \in Ids THEN attempts[i] ELSE 0]
    /\ outcomes' = [i \in DOMAIN tasks' |-> IF i \in Ids THEN outcomes[i] ELSE <<>>]
    /\ sent' = [i \in DOMAIN tasks' |-> IF i \in Ids THEN sent[i] ELSE 0]
    /\ UNCHANGED <<clock, pc, task>>
    /\ UNCHANGED <<step, trail>>
    /\ UNCHANGED <<svars, rvars>>

\* add_task(task_type, payload): the queue on its own, table orders not
\* looked at.
add_task ==
    /\ \E type \in TaskTypes, payload \in Orders : Enqueue(type, payload)
    /\ UNCHANGED orders

\* task = get_pending_task(), a task was found.
GetPending ==
    /\ pc = "poll"
    /\ \E i \in PendingFirst(tasks) : task' = TaskDict(tasks, i)
    /\ pc' = "got"
    /\ UNCHANGED <<tasks, seq, clock, attempts, outcomes>>
    /\ UNCHANGED <<step, trail>>
    /\ UNCHANGED <<svars, rvars, ovars>>

\* task = get_pending_task() returned None: await asyncio.sleep(5).
GetNone ==
    /\ pc = "poll"
    /\ PendingFirst(tasks) = {}
    /\ task' = NoTask
    /\ pc' = "sleep"
    /\ UNCHANGED <<tasks, seq, clock, attempts, outcomes>>
    /\ UNCHANGED <<step, trail>>
    /\ UNCHANGED <<svars, rvars, ovars>>

\* The sleep is over: the loop polls again.
Wake ==
    /\ pc = "sleep"
    /\ pc' = "poll"
    /\ UNCHANGED <<tasks, seq, clock, task, attempts, outcomes>>
    /\ UNCHANGED <<step, trail>>
    /\ UNCHANGED <<svars, rvars, ovars>>

\* update_task_status(task_id, TaskStatus.PROCESSING)
MarkProcessing ==
    /\ pc = "got"
    /\ tasks' = update_task_status(tasks, task.id, PROCESSING, NULL, NULL)
    /\ attempts' = [attempts EXCEPT ![task.id] = @ + 1]
    /\ pc' = "run"
    /\ step' = FirstStep(task.task_type)
    /\ trail' = <<>>
    /\ UNCHANGED <<seq, clock, task, outcomes>>
    /\ UNCHANGED <<svars, rvars, ovars>>

\* One step of process_scrape_task finished without an exception: the email
\* step has sent the report email, the order step has updated the order.
StepDone ==
    /\ pc = "run"
    /\ step \in {"scrape", "report", "email", "order"}
    /\ step' = NextStep(step)
    /\ trail' = Append(trail, step)
    /\ orders' = IF step = "order"
                 THEN [orders EXCEPT ![task.payload] = OrderCompleted(@)]
                 ELSE orders
    /\ UNCHANGED <<tasks, seq, clock, pc, task, attempts, outcomes>>
    /\ UNCHANGED <<svars, rvars>>

\* A step of the handler, the emails not counted.
HandlerStep == StepDone /\ UNCHANGED sent

\* A step of the handler, the emails counted: send_report_email has returned
\* when the email step is done.
HandlerStepCounted ==
    /\ StepDone
    /\ sent' = IF step = "email" THEN [sent EXCEPT ![task.id] = @ + 1] ELSE sent

\* process_scrape_task returned: update_task_status(task_id, COMPLETED, result).
HandlerReturn ==
    /\ pc = "run"
    /\ step = "return"
    /\ tasks' = update_task_status(tasks, task.id, COMPLETED, HandlerResult, NULL)
    /\ outcomes' = [outcomes EXCEPT ![task.id] = Append(@, "ok")]
    /\ pc' = AfterTask
    /\ task' = NoTask
    /\ step' = "idle"
    /\ trail' = <<>>
    /\ UNCHANGED <<seq, clock, attempts>>
    /\ UNCHANGED <<svars, rvars, ovars>>

\* The running step raised (or the type is unknown): the except branch of
\* run_worker marks the task failed.  An exception the except clause did not
\* catch would end the loop.
HandlerRaise ==
    /\ pc = "run"
    /\ step \in {"unknown", "scrape", "report", "email", "order"}
    /\ LET e == HandlerExc(step) IN
          IF Catches(e)
          THEN /\ tasks' = update_task_status(tasks, task.id, FAILED, NULL,
                                              error_msg(e))
               /\ pc' = "failed"
          ELSE /\ pc' = "exited"
               /\ UNCHANGED tasks
    /\ outcomes' = [outcomes EXCEPT ![task.id] = Append(@, "raise")]
    /\ step' = "idle"
    /\ trail' = <<>>
    /\ UNCHANGED <<seq, clock, task, attempts>>
    /\ UNCHANGED <<svars, rvars, ovars>>

\* Retry logic of the except branch: requeue when the dict's retries < 3.
Requeue ==
    /\ pc = "failed"
    /\ RetryAllowed(task)
    /\ tasks' = SetPending(tasks, task.id)
    /\ pc' = AfterTask
    /\ task' = NoTask
    /\ UNCHANGED <<seq, clock, attempts, outcomes>>
    /\ UNCHANGED <<step, trail>>
    /\ UNCHANGED <<svars, rvars, ovars>>

\* Retry logic of the except branch: the test fails, the task stays failed.
NoRequeue ==
    /\ pc = "failed"
    /\ ~RetryAllowed(task)
    /\ pc' = AfterTask
    /\ task' = NoTask
    /\ UNCHANGED <<tasks, seq, clock, attempts, outcomes>>
    /\ UNCHANGED <<step, trail>>
    /\ UNCHANGED <<svars, rvars, ovars>>

Worker ==
    \/ GetPending \/ GetNone \/ Wake \/ MarkProcessing
    \/ HandlerStep \/ HandlerReturn \/ HandlerRaise \/ Requeue \/ NoRequeue

Next == Tick \/ add_task \/ Worker

Spec == Init /\ [][Next]_vars

\* The worker loop keeps running: "while True", every handler attempt ends.
FairSpec == Spec /\ WF_vars(Worker)

\* Variant of Crash: the restarted worker sets the rows it finds in status
\* processing back to pending.
Crash_recovers ==
    /\ pc' = "poll"
    /\ task' = NoTask
    /\ step' = "idle"
    /\ trail' = <<>>
    /\ tasks' = [i \in DOMAIN tasks |->
                    IF tasks[i].status = PROCESSING
                    THEN [tasks[i] EXCEPT !.status = PENDING] ELSE tasks[i]]
    /\ UNCHANGED <<seq, clock, attempts, outcomes>>
    /\ UNCHANGED <<svars, rvars, ovars>>

\* The worker process dies and is started again: run_worker begins at the top
\* of its loop with no task in hand.  The rows stay as the last committed
\* statement left them, init_task_db creates the table only if it is missing.
Crash ==
    /\ pc' = "poll"
    /\ task' = NoTask
    /\ step' = "idle"
    /\ trail' = <<>>
    /\ UNCHANGED <<tasks, seq, clock, attempts, outcomes>>
    /\ UNCHANGED <<svars, rvars, ovars>>

CrashNext == add_task \/ Worker \/ Crash

\* The queue and a worker that may die and be restarted at any point.  The
\* rows are inserted in the same instant, so a poll may return any pending row.
CrashSpec == Init /\ [][CrashNext]_vars

\* POST /start-scrape: a new order is inserted as 'processing' and its task is
\* enqueued.  The order id is a fresh uuid.
start_scrape ==
    \E o \in Orders :
        /\ orders[o] = NoOrder
        /\ orders' = [orders EXCEPT ![o] = OrderStarted]
        /\ Enqueue("scrape_and_report", o)

\* POST /create-checkout: a new order is inserted as 'pending' with the id of
\* its checkout session.  No task is enqueued.
create_checkout ==
    \E o \in Orders :
        /\ orders[o] = NoOrder
        /\ orders' = [orders EXCEPT ![o] = OrderCheckout]
        /\ UNCHANGED <<tasks, seq, clock, pc, task, attempts, outcomes>>
        /\ UNCHANGED <<step, trail, sent>>
        /\ UNCHANGED <<svars, rvars>>

\* POST /webhook with checkout.session.completed: the order of the session is
\* set to 'paid' and a task is enqueued for it, on every delivery of the
\* event.
stripe_webhook ==
    \E o \in Orders :
        /\ orders[o].stripe_session_id # NULL
        /\ orders' = [orders EXCEPT ![o] = OrderPaid(@)]
        /\ Enqueue("scrape_and_report", o)

OrderNext == start_scrape \/ create_checkout \/ stripe_webhook \/ Worker

\* The web process, the queue and the worker, with table orders.  The rows
\* are inserted in the same instant.
OrderSpec == Init /\ [][OrderNext]_vars

\* The first task is enqueued.
add_first_task == add_task /\ seq = 0

NotifyNext ==
    \/ Tick \/ add_first_task
    \/ GetPending \/ GetNone \/ Wake \/ MarkProcessing
    \/ HandlerStepCounted \/ HandlerReturn \/ HandlerRaise \/ Requeue \/ NoRequeue

\* One task and the worker, with the emails of the task counted.
NotifySpec == Init /\ [][NotifyNext]_vars

----------------------------------------------------------------------------
(* TripAdvisorScraper (scrapers/tripadvisor/scraper.py).  The DOM is read   *)
(* when the code reads it: the number of cards of a page at find_elements,  *)
(* the rating label of a card when the loop reaches the card, the next-page *)
(* control when go_to_next_page looks for it.  A record keeps the fields    *)
(* that decide what is collected: the card it came from (its username) and  *)
(* its rating.                                                              *)

\* Texts as sequences of characters.
Digits == {"0", "1", "2", "3", "4", "5", "6", "7", "8", "9"}
Spaces == {" "}

DigitVal(c) ==
    CASE c = "0" -> 0 [] c = "1" -> 1 [] c = "2" -> 2 [] c = "3" -> 3
      [] c = "4" -> 4 [] c = "5" -> 5 [] c = "6" -> 6 [] c = "7" -> 7
      [] c = "8" -> 8 [] c = "9" -> 9

\* The length of the longest run of characters of set cs that starts at p.
RECURSIVE Run(_, _, _)
Run(t, p, cs) ==
    IF p <= Len(t) /\ t[p] \in cs THEN 1 + Run(t, p + 1, cs) ELSE 0

\* Where group 1 of the pattern, (\d+\.?\d*), ends when it starts at p (the
\* first position after it); 0 when no digit is at p.  The group is greedy,
\* and no shorter choice can be followed by the rest of the pattern.
GroupEnd(t, p) ==
    LET n == Run(t, p, Digits)
        q == p + n
    IN  IF n = 0 THEN 0
        ELSE IF q <= Len(t) /\ t[q] = "." THEN q + 1 + Run(t, q + 1, Digits)
        ELSE q

\* \s*of\s*5 matches at position q.
TailAt(t, q) ==
    LET a == q + Run(t, q, Spaces)
        b == a + 2 + Run(t, a + 2, Spaces)
    IN  /\ a + 1 <= Len(t) /\ t[a] = "o" /\ t[a + 1] = "f"
        /\ b <= Len(t) /\ t[b] = "5"

\* The positions where re.search(r'(\d+\.?\d*)\s*of\s*5', aria) can match.
MatchStarts(t) ==
    {p \in 1..Len(t) : GroupEnd(t, p) > 0 /\ TailAt(t, GroupEnd(t, p))}

\* The value of a run of digits.
RECURSIVE Number(_)
Number(ds) ==
    IF ds = <<>> THEN 0
    ELSE 10 * Number(SubSeq(ds, 1, Len(ds) - 1)) + DigitVal(ds[Len(ds)])

\* float(match.group(1)), in tenths (the labels of the model have at most one
\* digit after the point).
FloatTenths(g) ==
    LET n == Run(g, 1, Digits)
        whole == Number(SubSeq(g, 1, n))
    IN  IF n + 2 <= Len(g) THEN 10 * whole + DigitVal(g[n + 2]) ELSE 10 * whole

\* None, as a rating.
NoRating == -1

\* Variant of extract_rating: a label without the pattern gives 0.
extract_rating_zeroDefault(card) ==
    IF ~card.bubble THEN NoRating
    ELSE IF MatchStarts(card.aria) = {} THEN 0
    ELSE LET p == CHOOSE x \in MatchStarts(card.aria) :
                      \A y \in MatchStarts(card.aria) : x <= y
         IN  FloatTenths(SubSeq(card.aria, p, GroupEnd(card.aria, p) - 1))

\* extract_rating(review_elem): None when the bubble element is missing or its
\* aria-label holds no "<number> of 5", else the number of the leftmost match.
extract_rating(card) ==
    IF ~card.bubble THEN NoRating
    ELSE IF MatchStarts(card.aria) = {} THEN NoRating
    ELSE LET p == CHOOSE x \in MatchStarts(card.aria) :
                      \A y \in MatchStarts(card.aria) : x <= y
         IN  FloatTenths(SubSeq(card.aria, p, GroupEnd(card.aria, p) - 1))

\* The rating part of a card: no rating bubble, or a bubble with an aria-label.
NoBubble == [bubble |-> FALSE, aria |-> <<>>]
LabelNA == <<"N", "/", "A">>
LabelFour == <<"4", ".", "0", " ", "o", "f", " ", "5">>
LabelThree == <<"3", " ", "o", "f", " ", "5">>
LabelSeven == <<"7", " ", "o", "f", " ", "5">>
LabelOfFifty == <<"4", " ", "o", "f", " ", "5", "0">>
Bubbles ==
    {NoBubble} \cup
    {[bubble |-> TRUE, aria |-> a] :
        a \in {LabelNA, LabelFour, LabelThree, LabelSeven, LabelOfFifty}}

\* The contributor block of a card: missing, or its text, line by line.  A line
\* is its stripped text and whether its lower-case form holds ' contribution'.
ContributionsLine == [text |-> "12 contributions", contribution |-> TRUE]
BlockMissing == [present |-> FALSE, lines |-> <<>>]
BlockBare == [present |-> TRUE, lines |-> <<ContributionsLine>>]
BlockShort ==
    [present |-> TRUE,
     lines |-> <<[text |-> "UK", contribution |-> FALSE], ContributionsLine>>]
BlockSplit ==
    [present |-> TRUE,
     lines |-> <<[text |-> "Split, Croatia", contribution |-> FALSE],
                 ContributionsLine>>]
Blocks == {BlockMissing, BlockBare, BlockShort, BlockSplit}

\* The first line of the block that is no contributions line and is longer than
\* two characters; NULL when there is none.
RECURSIVE FirstLocationLine(_)
FirstLocationLine(lines) ==
    IF lines = <<>> THEN NULL
    ELSE IF ~Head(lines).contribution /\ Len(Head(lines).text) > 2
         THEN Head(lines).text
         ELSE FirstLocationLine(Tail(lines))

\* The first tier of get_user_location_fast: the location the contributor
\* block gives; NULL when find_element raises, when the text does not mention
\* contributions, or when no line qualifies.
InlineLocation(block) ==
    IF ~block.present THEN NULL
    ELSE IF \A i \in 1..Len(block.lines) : ~block.lines[i].contribution THEN NULL
    ELSE FirstLocationLine(block.lines)

\* The profile links of the site and the heading each profile page shows.
Profiles == {"p1", "p2"}
HeadingOf(href) == IF href = "p1" THEN "Zagreb, Croatia" ELSE ""

\* What opening a profile gives: a new window with the heading, a new window
\* where the heading does not appear in time, or no new window.
ProfileVisits == {"heading", "no_heading", "no_window"}

\* self.location_cache[href] = location
CachePut(cache, href, location) ==
    [h \in DOMAIN cache \cup {href} |-> IF h = href THEN location ELSE cache[h]]

\* The outcomes opening the profile of a card can have: none when the profile
\* is not opened (inline location, no link, or a cached link).
VisitsOf(card, cache) ==
    IF /\ InlineLocation(card.inline) = NULL
       /\ card.href # NULL
       /\ card.href \notin DOMAIN cache
    THEN ProfileVisits
    ELSE {"none"}

\* Delays, in tenths of a second, as the range they are drawn from:
\* time.sleep(s), time.sleep(random.uniform(a, b)) and human_delay(min_s, max_s).
sleep(at, s) == [at |-> at, lo |-> s, hi |-> s]
uniform(at, a, b) == [at |-> at, lo |-> a, hi |-> b]
human_delay(at, min_s, max_s) == uniform(at, min_s, max_s)

\* Variant of get_user_location_fast: a location found inline is put into the
\* cache under the profile link of the card.
get_user_location_fast_cachesInline(card, cache, visit) ==
    IF InlineLocation(card.inline) # NULL
    THEN [location |-> InlineLocation(card.inline),
          cache |-> IF card.href = NULL THEN cache
                    ELSE CachePut(cache, card.href, InlineLocation(card.inline)),
          opened |-> NULL, naps |-> <<>>]
    ELSE IF card.href = NULL
    THEN [location |-> "Unknown", cache |-> cache, opened |-> NULL, naps |-> <<>>]
    ELSE IF card.href \in DOMAIN cache
    THEN [location |-> cache[card.href], cache |-> cache, opened |-> NULL,
          naps |-> <<>>]
    ELSE IF visit = "heading"
    THEN [location |-> HeadingOf(card.href),
          cache |-> CachePut(cache, card.href, HeadingOf(card.href)),
          opened |-> card.href, naps |-> <<sleep("profile", 3)>>]
    ELSE IF visit = "no_heading"
    THEN [location |-> "Unknown", cache |-> cache, opened |-> card.href,
          naps |-> <<sleep("profile", 3)>>]
    ELSE [location |-> "Unknown", cache |-> cache, opened |-> NULL,
          naps |-> <<sleep("profile", 3)>>]

\* get_user_location_fast(review_elem): the location returned, the cache
\* afterwards, the profile whose page was opened (NULL when none was) and the
\* delays made.
get_user_location_fast(card, cache, visit) ==
    IF InlineLocation(card.inline) # NULL
    THEN [location |-> InlineLocation(card.inline), cache |-> cache,
          opened |-> NULL, naps |-> <<>>]
    ELSE IF card.href = NULL
    THEN [location |-> "Unknown", cache |-> cache, opened |-> NULL, naps |-> <<>>]
    ELSE IF card.href \in DOMAIN cache
    THEN [location |-> cache[card.href], cache |-> cache, opened |-> NULL,
          naps |-> <<>>]
    ELSE IF visit = "heading"
    THEN [location |-> HeadingOf(card.href),
          cache |-> CachePut(cache, card.href, HeadingOf(card.href)),
          opened |-> card.href, naps |-> <<sleep("profile", 3)>>]
    ELSE IF visit = "no_heading"
    THEN [location |-> "Unknown", cache |-> cache, opened |-> card.href,
          naps |-> <<sleep("profile", 3)>>]
    ELSE [location |-> "Unknown", cache |-> cache, opened |-> NULL,
          naps |-> <<sleep("profile", 3)>>]

\* The sites of the model: on one the cards differ in their rating parts and
\* carry their location inline, on another every card is rated and the cards
\* differ in their contributor blocks and profile links, on the third an ad
\* popup may show and the cards differ in whether their text has a "Read
\* more" button.
Sites == {"ratings", "profiles", "popups"}
CardsOf(s) ==
    IF s = "ratings"
    THEN {[bubble |-> b.bubble, aria |-> b.aria, inline |-> BlockSplit,
           href |-> NULL, read_more |-> FALSE] : b \in Bubbles}
    ELSE IF s = "profiles"
    THEN {[bubble |-> TRUE, aria |-> LabelThree, inline |-> b, href |-> h,
           read_more |-> FALSE] : b \in Blocks, h \in Profiles \cup {NULL}}
    ELSE {[bubble |-> TRUE, aria |-> LabelThree, inline |-> BlockSplit,
           href |-> NULL, read_more |-> m] : m \in BOOLEAN}

\* The candidate selectors of close_ad_popup, in their listed order.
close_selectors ==
    <<"button[aria-label='Close']", "button[class*='close']",
      "div[role='button'][aria-label='Close']", "svg[class*='close']",
      "[data-testid='close-button']">>

\* What close_ad_popup may find for a selector: no element (find_element
\* raises), an element that is not displayed, a displayed element whose click
\* raises, or a displayed element it clicks.
AdOutcomes(s) ==
    IF s = "popups" THEN {"absent", "hidden", "click_raises", "clickable"}
    ELSE {"absent"}

\* The close control was found, is displayed, and click() returned.
Activated(o) == o = "clickable"

\* Variant of AdLoopOver: the loop goes on after a click.
AdLoopOverAllTried(found) == Len(found) = Len(close_selectors)

\* The loop over the selectors is left: "return" after a click, or the list
\* is used up.
AdLoopOver(found) ==
    \/ Len(found) = Len(close_selectors)
    \/ found # <<>> /\ Activated(found[Len(found)])

\* What accept_cookies may meet: no button, a button that does not become
\* clickable within the wait, a clickable button whose click raises, or a
\* button it clicks.
CookieButtons == {"absent", "unclickable", "click_raises", "clicked"}

\* Variant of run_next: close_ad_popup is left out.
run_next_skipAds(pos) ==
    CASE pos = "start" -> "cookies"
      [] pos = "cookies" -> "scroll"
      [] pos = "ads" -> "scroll"
      [] pos = "scroll" -> "loop"

\* The order of the calls at the start of run(): driver.get, accept_cookies,
\* close_ad_popup, quick_scroll, then the page loop.
run_next(pos) ==
    CASE pos = "start" -> "cookies"
      [] pos = "cookies" -> "ads"
      [] pos = "ads" -> "scroll"
      [] pos = "scroll" -> "loop"

\* The states of a run, as the specification names them.
Phase(name) == [state |-> name, n |-> 0]
PageCollecting(n) == [state |-> "PageCollecting", n |-> n]

\* Variant of reviews_extend: the records of the page are put in front.
reviews_extend_front(rs, page_reviews) == page_reviews \o rs

\* self.reviews.extend(page_reviews)
reviews_extend(rs, page_reviews) == rs \o page_reviews

\* The rating part of a card.
Bubble(card) == [bubble |-> card.bubble, aria |-> card.aria]

\* The review dict scrape_page builds from the n-th card of the page.
Review(pg, n, card, location) ==
    [username |-> <<pg, n>>, location |-> location, rating |-> extract_rating(card)]

\* Variant of KeepReview: every review is kept.
KeepReviewAlways(review) == TRUE

\* "if review['rating'] is not None"
KeepReview(review) == review.rating # NoRating

\* "if len(self.reviews) >= self.max_reviews: break" in the loop of scrape_page.
TargetReached(rs, onpage, target) == Len(rs) >= target

\* What go_to_next_page may find: no control, a control with 'disabled' in its
\* class, a control it clicks, or a control whose click raises.
Controls == {"absent", "disabled", "enabled", "click_raises"}

\* Variant of ClickNext: a click that raised counts as a click.
ClickNextAlsoOnError(c) == c \in {"enabled", "click_raises"}

\* Variant of ClickNext: the class of the control is not looked at.
ClickNextIgnoringClass(c) == c \in {"enabled", "disabled"}

\* go_to_next_page returns True: the control was found, was not disabled, and
\* the click went through.
ClickNext(c) == c = "enabled"

\* A call into the driver fails when the session is dead, and may fail (and
\* leave the session dead) at any time.
Fails(s) == IF s = "dead" THEN {TRUE} ELSE BOOLEAN

\* The place of the first session failure.
FirstFailure(at, place) == IF at = "none" THEN place ELSE at

\* Variant of InitialReviews: the list is shared by the instances.
InitialReviews_shared(previous) == previous

\* "self.reviews = []" in __init__: a new list, whatever the instance made
\* before it holds.
InitialReviews(previous) == <<>>

\* Variant of InitialCache: the dict is shared by the instances.
InitialCache_shared(previous) == previous

\* "self.location_cache = {}" in __init__.
InitialCache(previous) == [h \in {} |-> ""]

\* document.body.scrollHeight, and random.randint(500, 800), in hundreds of
\* pixels.
Heights == {0, MaxHeight}
ScrollSteps == {5, 8}

\* Variant of ScrollTo: the position is not moved.
ScrollTo_stay(position, scroll) == position

\* "current += scroll"
ScrollTo(position, scroll) == position + scroll

\* TripAdvisorScraper(base_url, max_reviews): __init__.
ScraperNew ==
    /\ attempt = 1
    /\ left = NoInstance
    /\ total_height = 0
    /\ current = 0
    /\ lookup = NoLookup
    /\ phases = <<Phase("Init")>>
    /\ naps = <<>>
    /\ ad_seen = <<>>
    /\ clicks = <<>>
    /\ site \in Sites
    /\ location_cache = InitialCache(<<>>)
    /\ visits = [h \in Profiles |-> 0]
    /\ spc = "start"
    /\ max_reviews \in 0..MaxTarget
    /\ reviews = InitialReviews(<<>>)
    /\ reviews_on_page = <<>>
    /\ page = 0
    /\ shown = 0
    /\ cards = 0
    /\ dom = <<>>
    /\ seen = 0
    /\ session = "ok"
    /\ control = "none"
    /\ failedAt = "none"
    /\ ending = "none"
    /\ outcome = "none"

\* A session failure that no handler catches leaves run().
Raise(place) ==
    /\ spc' = "done"
    /\ session' = "dead"
    /\ failedAt' = FirstFailure(failedAt, place)
    /\ ending' = "error"
    /\ outcome' = "raised"
    /\ phases' = Append(phases, Phase("Exhausted"))

\* An exception that is no session failure leaves run().
RaiseOther ==
    /\ spc' = "done"
    /\ ending' = "error"
    /\ outcome' = "raised"
    /\ phases' = Append(phases, Phase("Exhausted"))
    /\ UNCHANGED <<session, failedAt>>

\* self.driver.get(self.base_url) and human_delay(2, 3): an exception is not
\* caught.
Load ==
    /\ spc = "start"
    /\ \E f \in Fails(session) :
          IF f THEN Raise("load") /\ naps' = <<>> /\ UNCHANGED shown
          ELSE /\ spc' = run_next("start")
               /\ shown' = 1
               /\ naps' = <<human_delay("load", 20, 30)>>
               /\ UNCHANGED <<session, failedAt, ending, outcome, phases>>
    /\ UNCHANGED <<max_reviews, reviews, reviews_on_page, page, cards, dom, seen,
                   control, ad_seen, clicks>>
    /\ UNCHANGED <<wvars, rvars, site, cvars, qvars, lookup, attempt, left>>

\* accept_cookies: TimeoutException (no clickable button within the wait) is
\* caught, any other exception of the wait or of the click is not.
accept_cookies ==
    /\ spc = "cookies"
    /\ \E f \in Fails(session), btn \in CookieButtons :
          /\ naps' = IF ~f /\ btn = "clicked"
                     THEN <<uniform("cookies", 10, 20),
                            human_delay("cookies_clicked", 10, 20)>>
                     ELSE <<uniform("cookies", 10, 20)>>
          /\ IF f THEN Raise("cookies")
             ELSE IF btn = "click_raises" THEN RaiseOther
             ELSE /\ spc' = run_next("cookies")
                  /\ phases' = Append(phases, Phase("ConsentResolved"))
                  /\ UNCHANGED <<session, failedAt, ending, outcome>>
    /\ UNCHANGED <<max_reviews, reviews, reviews_on_page, page, shown, cards,
                   dom, seen, control, ad_seen, clicks>>
    /\ UNCHANGED <<wvars, rvars, site, cvars, qvars, lookup, attempt, left>>

\* close_ad_popup, one selector of the list at a time: every exception is
\* caught; the function returns after the first click that went through, or
\* when the list is used up.
close_ad_popup ==
    /\ spc = "ads"
    /\ \E f \in Fails(session), o \in AdOutcomes(site) :
          LET found == IF f THEN "error" ELSE o
          IN  /\ ad_seen' = Append(ad_seen, found)
              /\ clicks' = IF Activated(found)
                           THEN Append(clicks, Len(ad_seen) + 1)
                           ELSE clicks
              /\ naps' = (IF ad_seen = <<>> THEN <<uniform("ads", 10, 20)>>
                          ELSE <<>>)
                         \o (IF Activated(found)
                             THEN <<human_delay("ads_clicked", 10, 20)>>
                             ELSE <<>>)
              /\ session' = IF f THEN "dead" ELSE session
              /\ failedAt' = IF f THEN FirstFailure(failedAt, "ads") ELSE failedAt
    /\ IF AdLoopOver(ad_seen')
       THEN spc' = run_next("ads") /\ phases' = Append(phases, Phase("AdDismissed"))
       ELSE spc' = "ads" /\ UNCHANGED phases
    /\ UNCHANGED <<max_reviews, reviews, reviews_on_page, page, shown, cards,
                   dom, seen, control, ending, outcome>>
    /\ UNCHANGED <<wvars, rvars, site, cvars, qvars, lookup, attempt, left>>

\* quick_scroll up to its loop: total_height is read once, current = 0.  An
\* exception of execute_script is not caught.
quick_scroll ==
    /\ spc = "scroll"
    /\ ad_seen' = <<>>
    /\ naps' = <<>>
    /\ \E f \in Fails(session), h \in Heights :
          IF f THEN Raise("scroll") /\ UNCHANGED qvars
          ELSE /\ spc' = "scrolling"
               /\ total_height' = h
               /\ current' = 0
               /\ UNCHANGED <<session, failedAt, ending, outcome, phases>>
    /\ UNCHANGED <<max_reviews, reviews, reviews_on_page, page, shown, cards,
                   dom, seen, control, clicks>>
    /\ UNCHANGED <<wvars, rvars, site, cvars, lookup, attempt, left>>

\* "while current < total_height": one scroll step with its delay, or the end
\* of quick_scroll and "page = 1".
ScrollLoop ==
    /\ spc = "scrolling"
    /\ IF current < total_height
       THEN \E f \in Fails(session), scroll \in ScrollSteps :
               IF f
               THEN /\ Raise("scroll")
                    /\ total_height' = 0
                    /\ current' = 0
                    /\ naps' = <<>>
                    /\ UNCHANGED page
               ELSE /\ current' = ScrollTo(current, scroll)
                    /\ naps' = <<uniform("scroll", 2, 4)>>
                    /\ UNCHANGED <<spc, total_height, session, failedAt, ending,
                                   outcome, phases, page>>
       ELSE /\ spc' = run_next("scroll")
            /\ page' = 1
            /\ phases' = Append(phases, Phase("PrimedByScroll"))
            /\ total_height' = 0
            /\ current' = 0
            /\ naps' = <<>>
            /\ UNCHANGED <<session, failedAt, ending, outcome>>
    /\ UNCHANGED <<max_reviews, reviews, reviews_on_page, shown, cards, dom,
                   seen, control, ad_seen, clicks>>
    /\ UNCHANGED <<wvars, rvars, site, cvars, lookup, attempt, left>>

\* "while len(self.reviews) < self.max_reviews": enter scrape_page, or leave
\* the loop.
LoopTest ==
    /\ spc = "loop"
    /\ IF Len(reviews) < max_reviews
       THEN /\ spc' = "find"
            /\ phases' = Append(phases, PageCollecting(page))
            /\ UNCHANGED ending
       ELSE /\ spc' = "quit"
            /\ phases' = Append(phases, Phase("Exhausted"))
            /\ ending' = "target"
    /\ naps' = <<>>
    /\ UNCHANGED <<max_reviews, reviews, reviews_on_page, page, shown, cards,
                   dom, seen, session, control, failedAt, outcome, ad_seen,
                   clicks>>
    /\ UNCHANGED <<wvars, rvars, site, cvars, qvars, lookup, attempt, left>>

\* scrape_page up to its loop: reviews_on_page = [], find_elements.  An
\* exception is caught by the outer try, the page gives no record.
FindCards ==
    /\ spc = "find"
    /\ reviews_on_page' = <<>>
    /\ dom' = <<>>
    /\ \E f \in Fails(session) :
          IF f
          THEN /\ cards' = 0
               /\ session' = "dead"
               /\ failedAt' = FirstFailure(failedAt, "collect")
               /\ UNCHANGED seen
          ELSE /\ \E n \in 0..(MaxCards - seen) : cards' = n /\ seen' = seen + n
               /\ UNCHANGED <<session, failedAt>>
    /\ spc' = "cards"
    /\ naps' = <<>>
    /\ UNCHANGED <<max_reviews, reviews, page, shown, control, ending, outcome,
                   phases, ad_seen, clicks>>
    /\ UNCHANGED <<wvars, rvars, site, cvars, qvars, lookup, attempt, left>>

\* One iteration of "for i, card in enumerate(review_cards)": the break test,
\* then the card is scrolled to and read; an exception skips the card.
CollectCard ==
    /\ spc = "cards"
    /\ Len(dom) < cards
    /\ IF TargetReached(reviews, reviews_on_page, max_reviews)
       THEN /\ spc' = "extend"
            /\ naps' = <<>>
            /\ UNCHANGED <<reviews_on_page, dom, session, failedAt, cvars, lookup>>
       ELSE /\ spc' = "cards"
            /\ \E f \in Fails(session), card \in CardsOf(site) :
                \E visit \in VisitsOf(card, location_cache) :
                  LET found == get_user_location_fast(card, location_cache, visit)
                      review == Review(page, Len(dom) + 1, card, found.location)
                  IN  IF f
                      THEN /\ dom' = Append(dom, Bubble(card))
                           /\ session' = "dead"
                           /\ failedAt' = FirstFailure(failedAt, "collect")
                           /\ naps' = <<>>
                           /\ lookup' = NoLookup
                           /\ UNCHANGED <<reviews_on_page, cvars>>
                      ELSE /\ dom' = Append(dom, Bubble(card))
                           /\ location_cache' = found.cache
                           /\ lookup' =
                                 [inline |-> InlineLocation(card.inline),
                                  href |-> card.href,
                                  cached |-> card.href \in DOMAIN location_cache,
                                  visit |-> visit,
                                  location |-> found.location,
                                  before |-> location_cache]
                           /\ visits' =
                                 IF found.opened = NULL THEN visits
                                 ELSE [visits EXCEPT ![found.opened] = @ + 1]
                           /\ reviews_on_page' =
                                 IF KeepReview(review)
                                 THEN Append(reviews_on_page, review)
                                 ELSE reviews_on_page
                           /\ naps' = <<sleep("card", 2)>> \o found.naps
                                      \o (IF card.read_more
                                          THEN <<sleep("read_more", 5)>>
                                          ELSE <<>>)
                           /\ UNCHANGED <<session, failedAt>>
    /\ UNCHANGED <<max_reviews, reviews, page, shown, cards, seen, control,
                   ending, outcome, phases, ad_seen, clicks>>
    /\ UNCHANGED <<wvars, rvars, site, qvars, attempt, left>>

\* The loop of scrape_page is over: return reviews_on_page;
\* self.reviews.extend(page_reviews); the test for the target.
Extend ==
    /\ \/ spc = "cards" /\ Len(dom) = cards
       \/ spc = "extend"
    /\ reviews' = reviews_extend(reviews, reviews_on_page)
    /\ IF Len(reviews') >= max_reviews
       THEN /\ spc' = "quit"
            /\ phases' = Append(phases, Phase("Exhausted"))
            /\ ending' = "target"
       ELSE spc' = "next" /\ UNCHANGED <<phases, ending>>
    /\ naps' = <<>>
    /\ UNCHANGED <<max_reviews, reviews_on_page, page, shown, cards, dom, seen,
                   session, control, failedAt, outcome, ad_seen, clicks>>
    /\ lookup' = NoLookup
    /\ UNCHANGED <<wvars, rvars, site, cvars, qvars, attempt, left>>

\* "if not self.go_to_next_page(): break" and "page += 1".  Every exception
\* in go_to_next_page is caught and gives False; after a click that went
\* through comes human_delay(2, 3).
go_to_next_page ==
    /\ spc = "next"
    /\ \E f \in Fails(session), c \in Controls :
          /\ (c \in {"enabled", "click_raises"}) => shown < MaxPages
          /\ IF f
             THEN /\ control' = "error"
                  /\ session' = "dead"
                  /\ failedAt' = FirstFailure(failedAt, "next")
                  /\ spc' = "quit" /\ ending' = "no_next"
                  /\ phases' = Append(phases, Phase("Exhausted"))
                  /\ naps' = <<>>
                  /\ UNCHANGED <<page, shown>>
             ELSE /\ control' = c
                  /\ UNCHANGED <<session, failedAt>>
                  /\ IF ClickNext(c)
                     THEN /\ shown' = shown + 1
                          /\ page' = page + 1
                          /\ spc' = "loop"
                          /\ naps' = <<human_delay("next_page", 20, 30)>>
                          /\ UNCHANGED <<ending, phases>>
                     ELSE /\ spc' = "quit" /\ ending' = "no_next"
                          /\ phases' = Append(phases, Phase("Exhausted"))
                          /\ naps' = <<>>
                          /\ UNCHANGED <<page, shown>>
    /\ UNCHANGED <<max_reviews, reviews, reviews_on_page, cards, dom, seen,
                   outcome, ad_seen, clicks>>
    /\ UNCHANGED <<wvars, rvars, site, cvars, qvars, lookup, attempt, left>>

\* The end of run(): self.driver.quit(), return self.reviews.  Whether quit()
\* raises on a dead session is up to the driver library.
Quit ==
    /\ spc = "quit"
    /\ spc' = "done"
    /\ \E raises \in (IF session = "dead" THEN BOOLEAN ELSE {FALSE}) :
          outcome' = IF raises THEN "raised" ELSE "returned"
    /\ naps' = <<>>
    /\ UNCHANGED <<max_reviews, reviews, reviews_on_page, page, shown, cards,
                   dom, seen, session, control, failedAt, ending, phases,
                   ad_seen, clicks>>
    /\ UNCHANGED <<wvars, rvars, site, cvars, qvars, lookup, attempt, left>>

ScrapeInit == WorkerStart /\ NoOrders /\ ScraperNew /\ ReportOff

ScrapeNext ==
    \/ Load \/ accept_cookies \/ close_ad_popup \/ quick_scroll \/ ScrollLoop
    \/ LoopTest
    \/ FindCards \/ CollectCard \/ Extend \/ go_to_next_page \/ Quit

\* One run of one scraper instance.
ScrapeSpec == ScrapeInit /\ [][ScrapeNext]_vars

\* run_scraper of the next handler attempt (a retry of the task, or another
\* task for the same restaurant): TripAdvisorScraper(base_url, max_reviews=500)
\* makes a new instance with a new browser, after the run before it has ended.
run_scraper ==
    /\ spc = "done"
    /\ attempt < MaxAttempts
    /\ attempt' = attempt + 1
    /\ left' = (reviews # <<>> /\ DOMAIN location_cache # {} /\ outcome = "raised")
    /\ reviews' = InitialReviews(reviews)
    /\ location_cache' = InitialCache(location_cache)
    /\ visits' = [h \in Profiles |-> 0]
    /\ spc' = "start"
    /\ session' = "ok"
    /\ phases' = <<Phase("Init")>>
    /\ naps' = <<>>
    /\ ad_seen' = <<>>
    /\ clicks' = <<>>
    /\ reviews_on_page' = <<>>
    /\ page' = 0
    /\ shown' = 0
    /\ cards' = 0
    /\ dom' = <<>>
    /\ seen' = 0
    /\ control' = "none"
    /\ failedAt' = "none"
    /\ ending' = "none"
    /\ outcome' = "none"
    /\ lookup' = NoLookup
    /\ UNCHANGED <<max_reviews, site, qvars>>
    /\ UNCHANGED <<wvars, rvars>>

\* The attempts of a task scrape one site, with max_reviews=500.
AttemptsInit == ScrapeInit /\ site = "profiles" /\ max_reviews = MaxTarget

AttemptsNext == ScrapeNext \/ run_scraper

\* The scraper runs of successive handler attempts.
AttemptsSpec == AttemptsInit /\ [][AttemptsNext]_vars

----------------------------------------------------------------------------
(* The report step (task_queue.py, report_service.py) and the admin path    *)
(* (main.py process_order) over table reports.  The records handed to the   *)
(* report step are fixed at the start; they go through reviews.csv.         *)

\* The record sequences a scrape may return: the location of a record is the
\* default, a place, or the empty heading of a profile; its rating is a number
\* of tenths (scrape_page keeps no review without one).
ReportLocations == {"Unknown", "Zagreb, Croatia", ""}
ReportRatings == {30, 40}
ReportRecords == [location : ReportLocations, rating : ReportRatings]
RecordSeqs == UNION {[1..k -> ReportRecords] : k \in 0..MaxRecords}

\* The orders reports are made for.
ReportOrders == {"o1", "o2"}

\* A field of the file and a cell of the frame: a value, or nothing (an empty
\* field, NaN).
Value(v) == [present |-> TRUE, value |-> v]
EmptyField == [present |-> FALSE, value |-> NULL]
NaN == [present |-> FALSE, value |-> NULL]

\* pd.DataFrame(reviews).to_csv(csv_path, index=False): the columns are the
\* keys of the dicts, so an empty list gives a file without columns; None and
\* the empty string are both written as an empty field.
to_csv(rs) ==
    [columns |-> IF rs = <<>> THEN {} ELSE {"username", "location", "rating", "date", "text"},
     rows |-> [i \in 1..Len(rs) |->
                  [location |-> IF rs[i].location = "" THEN EmptyField
                                ELSE Value(rs[i].location),
                   rating |-> IF rs[i].rating = NoRating THEN EmptyField
                              ELSE Value(rs[i].rating)]]]

\* pd.read_csv(csv_path): a file without columns raises EmptyDataError; an
\* empty field is read as NaN.
read_csv(file) ==
    [raised |-> file.columns = {},
     columns |-> file.columns,
     rows |-> [i \in 1..Len(file.rows) |->
                  [location |-> IF file.rows[i].location.present
                                THEN Value(file.rows[i].location.value) ELSE NaN,
                   rating |-> IF file.rows[i].rating.present
                              THEN Value(file.rows[i].rating.value) ELSE NaN]]]

\* The values of a column that are not NaN, in row order.
RECURSIVE Present(_, _)
Present(rows, col) ==
    IF rows = <<>> THEN <<>>
    ELSE IF Head(rows)[col].present
         THEN <<Head(rows)[col].value>> \o Present(Tail(rows), col)
         ELSE Present(Tail(rows), col)

RECURSIVE Sum(_)
Sum(xs) == IF xs = <<>> THEN 0 ELSE Head(xs) + Sum(Tail(xs))

\* df[col].nunique(): the number of distinct values that are not NaN.
nunique(df, col) ==
    Cardinality({Present(df.rows, col)[i] : i \in 1..Len(Present(df.rows, col))})

\* Averages as fractions of tenths; the mean of nothing is NaN (den = 0).
Fraction(n, d) == [num |-> n, den |-> d]
Zero == Fraction(0, 1)
NaNMean == Fraction(0, 0)

\* df[col].mean(): the mean of the values that are not NaN, NaN when there
\* are none.
mean(df, col) ==
    IF Present(df.rows, col) = <<>> THEN NaNMean
    ELSE Fraction(Sum(Present(df.rows, col)), Len(Present(df.rows, col)))

\* The statistics both report functions take from the frame.
Stats(df) ==
    [total_reviews |-> Len(df.rows),
     countries_count |-> IF "location" \in df.columns \/ "nationality" \in df.columns
                         THEN nunique(df, "location")
                         ELSE 0,
     avg_rating |-> IF "rating" \in df.columns THEN mean(df, "rating") ELSE Zero]

\* The row generate_report_for_order inserts: with a CSV the statistics of the
\* frame and positive_pct = 85.0, without one the zeros of the placeholder.
generate_report_for_order(report_id, order_id, csv_path, df) ==
    IF ~csv_path
    THEN [id |-> report_id, order_id |-> order_id, total_reviews |-> 0,
          countries_count |-> 0, avg_rating |-> Zero, positive_pct |-> 0]
    ELSE [id |-> report_id, order_id |-> order_id,
          total_reviews |-> Stats(df).total_reviews,
          countries_count |-> Stats(df).countries_count,
          avg_rating |-> Stats(df).avg_rating, positive_pct |-> 85]

\* UPDATE reports SET total_reviews, countries_count, avg_rating WHERE id = ?
update_report_with_data(row, df) ==
    [row EXCEPT !.total_reviews = Stats(df).total_reviews,
                !.countries_count = Stats(df).countries_count,
                !.avg_rating = Stats(df).avg_rating]

\* SELECT id FROM reports WHERE order_id = ?: the matching rows; fetchone()
\* takes one of them, the query gives no order.
ReportsOf(rows, order_id) == {i \in 1..Len(rows) : rows[i].order_id = order_id}

\* The summary of a report row, and the one of a report step that raised.
Summary(row) ==
    [report_id |-> row.id, total_reviews |-> row.total_reviews,
     countries_count |-> row.countries_count, avg_rating |-> row.avg_rating,
     positive_pct |-> row.positive_pct]
NoSummary ==
    [report_id |-> 0, total_reviews |-> 0, countries_count |-> 0,
     avg_rating |-> NaNMean, positive_pct |-> 0]

\* init_db: table reports is empty; the records the scrapes of the orders give.
ReportStart ==
    /\ reports = <<>>
    /\ uuids = 0
    /\ records \in RecordSeqs
    /\ summaries = [o \in ReportOrders |-> <<>>]

\* Steps 1 (CSV) and 2 (report) of process_scrape_task: the records are saved
\* to reviews.csv; an existing report of the order is updated from the file,
\* else generate_report_for_order inserts a new one.  read_csv raising leaves
\* the table as it is.
ReportStep(o) ==
    /\ Len(summaries[o]) < MaxRuns
    /\ LET df == read_csv(to_csv(records))
       IN  IF ReportsOf(reports, o) # {}
           THEN \E i \in ReportsOf(reports, o) :
                    IF df.raised
                    THEN /\ summaries' = [summaries EXCEPT ![o] = Append(@, NoSummary)]
                        /\ UNCHANGED <<reports, uuids>>
                   ELSE /\ reports' = [reports EXCEPT ![i] = update_report_with_data(@, df)]
                        /\ summaries' =
                              [summaries EXCEPT ![o] = Append(@, Summary(reports'[i]))]
                        /\ UNCHANGED uuids
           ELSE  IF df.raised
                THEN /\ summaries' = [summaries EXCEPT ![o] = Append(@, NoSummary)]
                     /\ UNCHANGED <<reports, uuids>>
                ELSE /\ Len(reports) < MaxReports
                     /\ uuids' = uuids + 1
                     /\ reports' = Append(reports, generate_report_for_order(uuids + 1, o, TRUE, df))
                     /\ summaries' =
                           [summaries EXCEPT
                               ![o] = Append(@, Summary(generate_report_for_order(uuids + 1, o, TRUE, df)))]
    /\ UNCHANGED records
    /\ UNCHANGED <<wvars, svars>>

\* What sending the report email may do: return, or raise.
EmailOutcomes == {"sent", "raises"}

\* process_order, started by POST /admin/generate-report/{order_id} for an
\* order of table orders: generate_report_for_order without a CSV inserts a
\* placeholder report, the order is set to 'completed' with the report id and
\* the email is sent; when that raises the order is set to 'error'.
process_order(o) ==
    /\ orders[o] # NoOrder
    /\ Len(reports) < MaxReports
    /\ uuids' = uuids + 1
    /\ reports' = Append(reports, generate_report_for_order(uuids + 1, o, FALSE, read_csv(to_csv(<<>>))))
    /\ \E email \in EmailOutcomes :
          orders' = [orders EXCEPT
                        ![o] = IF email = "sent" THEN OrderCompleted(@)
                               ELSE [OrderCompleted(@) EXCEPT !.status = "error"]]
    /\ UNCHANGED <<records, summaries>>
    /\ UNCHANGED <<tasks, seq, clock, pc, task, attempts, outcomes, step, trail, sent>>
    /\ UNCHANGED svars

\* The orders reports are made for are paid.
OrdersPaid == orders = [o \in ReportOrders |-> OrderPaid(OrderCheckout)]

ReportInit == WorkerStart /\ OrdersPaid /\ ScraperOff /\ ReportStart

ReportNext == \E o \in ReportOrders : ReportStep(o) \/ process_order(o)

\* Report steps of tasks and admin generations, in any order.
ReportSpec == ReportInit /\ [][ReportNext]_vars

----------------------------------------------------------------------------
(* Properties of the report step.                                           *)

\* C22: after any sequence of report steps and admin generations, table
\* reports holds at most one report for an order id.
C22_AtMostOneReportPerOrder ==
    \A o \in ReportOrders : Cardinality(ReportsOf(reports, o)) <= 1

\* C23: a report step repeated for the same order on the same records leaves
\* the summary (report id, total_reviews, countries_count, avg_rating,
\* positive_pct) the step before it left.
C23_AssemblyIdempotent ==
    \A o \in DOMAIN summaries :
        \A i \in 1..(Len(summaries[o]) - 1) : summaries[o][i + 1] = summaries[o][i]

\* The locations of the records, and the sum of their ratings.
Origins(rs) == {rs[k].location : k \in 1..Len(rs)}
RatingSum(rs) == Sum([k \in 1..Len(rs) |-> rs[k].rating])

\* C24: the summary a report step leaves has countries_count equal to the
\* number of distinct locations of the records other than "Unknown", and
\* total_reviews equal to the number of records.
C24_CountsWithoutDefault ==
    \A o \in DOMAIN summaries :
        \A i \in 1..Len(summaries[o]) :
            summaries[o][i] # NoSummary =>
                /\ summaries[o][i].total_reviews = Len(records)
                /\ summaries[o][i].countries_count =
                      Cardinality(Origins(records) \ {"Unknown"})

\* C25: a report step leaves a summary whose avg_rating is the mean of the
\* ratings of the records, and 0 when there is no rating (the empty sequence).
C25_MeanOrZero ==
    \A o \in DOMAIN summaries :
        \A i \in 1..Len(summaries[o]) :
            /\ summaries[o][i] # NoSummary
            /\ summaries[o][i].avg_rating =
                  IF records = <<>> THEN Zero
                  ELSE Fraction(RatingSum(records), Len(records))

----------------------------------------------------------------------------
(* Properties of the queue and the worker loop.                            *)

\* C1: every task's retries is at most 3 in every reachable state.
\* (Violated: the retry test reads the retries value of the dequeue, taken
\* before update_task_status increments it, so a fourth failure is counted.)
C1_RetriesAtMostThree == \A i \in Ids : tasks[i].retries <= 3

\* C2: once a task's retries equals 3 its status is failed and stays failed.
\* (Violated: the third failure is requeued, the row is pending with retries 3.)
C2_ThreeRetriesIsFailed ==
    \A i \in Ids : tasks[i].retries = 3 => tasks[i].status = FAILED

\* C3: a task is set to processing, and its handler run, at most 3 times.
\* (Violated: a task that keeps failing is attempted 4 times.)
C3_AtMostThreeAttempts == \A i \in Ids : attempts[i] <= 3

\* C4: a failure that leaves retries < 3 after the increment is requeued in
\* the same iteration: outside the point between the failed update and the
\* retry test, no row is failed with retries < 3.
C4_FailedBelowLimitRequeued ==
    pc # "failed" =>
        \A i \in Ids : tasks[i].status = FAILED => tasks[i].retries >= 3

\* A task requeued after its second failure, the worker back at the dequeue.
C4_Witness ==
    /\ pc = "poll"
    /\ \E i \in Ids :
          /\ tasks[i].status = PENDING
          /\ tasks[i].retries = 2
          /\ outcomes[i] = <<"raise", "raise">>

\* k raises followed by one successful run.
RaisesThenOk(k) == [n \in 1..(k + 1) |-> IF n <= k THEN "raise" ELSE "ok"]

\* C5: a task whose handler raises on its first k attempts (k in 0..2) and
\* succeeds on attempt k+1 is completed, has a result, and has retries = k.
C5_CompletedAfterKFailures ==
    \A i \in Ids : \A k \in 0..2 :
        outcomes[i] = RaisesThenOk(k) =>
            /\ tasks[i].status = COMPLETED
            /\ tasks[i].result # NULL
            /\ tasks[i].retries = k

\* Two failures, then a success.
C5_Witness ==
    \E i \in Ids :
        /\ outcomes[i] = <<"raise", "raise", "ok">>
        /\ tasks[i].status = COMPLETED
        /\ tasks[i].retries = 2

\* C6: a completed task has a result and no error, a failed task has an error
\* and no result.
\* (Violated: the completed update leaves the error of an earlier failed
\* attempt in the row.)
C6_ExactlyOneOfResultError ==
    \A i \in Ids :
        /\ tasks[i].status = COMPLETED =>
              tasks[i].result # NULL /\ tasks[i].error = NULL
        /\ tasks[i].status = FAILED =>
              tasks[i].error # NULL /\ tasks[i].result = NULL

\* The pending row with the smallest (created_at, id).
LeastPending(ts) ==
    CHOOSE i \in DOMAIN ts :
        /\ ts[i].status = PENDING
        /\ \A j \in DOMAIN ts :
              ts[j].status = PENDING =>
                  \/ ts[i].created_at < ts[j].created_at
                  \/ ts[i].created_at = ts[j].created_at /\ i <= j

\* C7: the dequeue returns the pending task with the smallest (created_at, id),
\* and none exactly when no task is pending.
\* (Violated: the query orders by created_at alone, rows of one second tie.)
C7_DequeueSmallest ==
    [][(pc = "poll" /\ pc' # "poll") =>
          IF \E i \in Ids : tasks[i].status = PENDING
          THEN pc' = "got" /\ task'.id = LeastPending(tasks)
          ELSE pc' = "sleep" /\ task' = NoTask]_vars

\* C8: for A enqueued before B, B is never set to processing while A is pending.
\* (Violated: with equal created_at the dequeue may return B first, see C7.)
C8_Fifo ==
    [][\A a, b \in Ids :
          (a < b /\ tasks[a].status = PENDING) =>
              ~(tasks[b].status # PROCESSING /\ tasks'[b].status = PROCESSING)]_vars

\* The status changes of the lifecycle.
AllowedTransitions ==
    {<<PENDING, PROCESSING>>, <<PROCESSING, COMPLETED>>,
     <<PROCESSING, FAILED>>, <<FAILED, PENDING>>}

\* C9: every status change is pending->processing, processing->completed,
\* processing->failed or failed->pending, and is a step of the worker on the
\* task it holds.
C9_Lifecycle ==
    [][\A i \in Ids :
          tasks'[i].status # tasks[i].status =>
              /\ <<tasks[i].status, tasks'[i].status>> \in AllowedTransitions
              /\ pc' # pc
              /\ task # NoTask /\ task.id = i]_vars

\* A task that went through every transition: failed, requeued, completed.
C9_Witness ==
    \E i \in Ids : tasks[i].status = COMPLETED /\ tasks[i].retries >= 1

\* C10: an enqueue adds exactly one row, pending, retries 0, no result, no
\* error, with an id above every existing id, and changes no existing row; no
\* step removes a row.
C10_EnqueueAppends ==
    [][/\ Ids \subseteq DOMAIN tasks'
       /\ (seq' # seq \/ DOMAIN tasks' # Ids) =>
             \E n \in DOMAIN tasks' :
                /\ DOMAIN tasks' = Ids \cup {n}
                /\ \A i \in Ids : n > i /\ tasks'[i] = tasks[i]
                /\ tasks'[n].status = PENDING
                /\ tasks'[n].retries = 0
                /\ tasks'[n].result = NULL
                /\ tasks'[n].error = NULL]_vars

\* A second task enqueued while the worker runs the handler of the first.
C10_Witness ==
    /\ pc = "run"
    /\ Ids = {1, 2}
    /\ tasks[1].status = PROCESSING
    /\ tasks[2].status = PENDING
    /\ tasks[2].created_at > tasks[1].created_at

C12_NoParallelExecution ==
    /\ Cardinality({i \in Ids : tasks[i].status = PROCESSING}) <= 1
    /\ \A i \in Ids :
          tasks[i].status = PROCESSING => pc = "run" /\ task.id = i
    /\ pc = "run" => tasks[task.id].status = PROCESSING

\* One task in its handler while the other waits.
C12_Witness ==
    /\ pc = "run"
    /\ step = "email"
    /\ \E i \in Ids : i # task.id /\ tasks[i].status = PENDING

\* A task is terminal: completed, or failed with no requeue to come.
Terminal(i) ==
    /\ i \in Ids
    /\ \/ tasks[i].status = COMPLETED
       \/ /\ tasks[i].status = FAILED
          /\ ~(pc = "failed" /\ task.id = i /\ RetryAllowed(task))

\* C13: under a fair worker every enqueued task eventually is terminal, and
\* stays so.
C13_EveryTaskTerminates ==
    \A i \in 1..MaxTasks : (i \in Ids) ~> []Terminal(i)

\* Both tasks terminal, one of them failed for good.
C13_Witness ==
    /\ Ids = {1, 2}
    /\ Terminal(1) /\ Terminal(2)
    /\ \E i \in Ids : tasks[i].status = FAILED /\ tasks[i].retries = 4

\* The steps of one attempt, in the order of the control flow.
FullTrail == <<"scrape", "report", "email", "order">>

\* C14: within one attempt the steps run in the order scrape, report,
\* notification (then the order update); a task is set to completed only after
\* all of them finished in that attempt; a raise ends the attempt, no later
\* step of it runs.
C14_StepOrder ==
    [][/\ \A i \in Ids :
             (tasks[i].status # COMPLETED /\ tasks'[i].status = COMPLETED) =>
                 trail = FullTrail /\ pc = "run" /\ task.id = i
       /\ trail' # trail =>
             \/ /\ pc = "run" /\ pc' = "run"
                /\ Len(trail') = Len(trail) + 1
                /\ trail' = SubSeq(FullTrail, 1, Len(trail'))
             \/ trail' = <<>> /\ pc' \in {"run", "poll", "failed"}
       /\ pc # "run" => trail = <<>>]_vars

\* A task completed on its second attempt, after the first one raised.
C14_Witness ==
    \E i \in Ids :
        /\ tasks[i].status = COMPLETED
        /\ outcomes[i] = <<"raise", "ok">>

----------------------------------------------------------------------------
(* Properties of a scrape run.                                             *)

\* A card that shows no rating: no rating bubble, or the label "N/A".
Unrated(b) == ~b.bubble \/ b.aria = LabelNA

\* C15: every record of the collected sequence has a rating; a card without a
\* rating bubble or with a label that holds no "<number> of 5" gives no
\* record, "4.0 of 5" gives 4.0 and "3 of 5" gives 3.0 (in tenths: 40 and 30);
\* after a card was dropped the page loop goes on and the run has not ended.
C15_RatedOnly ==
    /\ [](/\ \A i \in 1..Len(reviews) : reviews[i].rating # NoRating
          /\ \A i \in 1..Len(reviews_on_page) :
                LET r == reviews_on_page[i]
                    b == dom[r.username[2]]
                IN  /\ r.rating # NoRating
                    /\ ~Unrated(b)
                    /\ b.aria = LabelFour => r.rating = 40
                    /\ b.aria = LabelThree => r.rating = 30)
    /\ [][(/\ spc = "cards"
           /\ Len(dom') = Len(dom) + 1
           /\ session' = "ok"
           /\ Unrated(dom'[Len(dom')]))
              => /\ reviews_on_page' = reviews_on_page
                 /\ reviews' = reviews
                 /\ spc' = "cards"
                 /\ outcome' = "none"]_vars

\* A finished run over a page with an "N/A" card, a "4.0 of 5" card and a
\* "3 of 5" card: the last two were collected, as 4.0 and 3.0.
C15_Witness ==
    /\ spc = "done" /\ outcome = "returned" /\ failedAt = "none"
    /\ dom = <<[bubble |-> TRUE, aria |-> LabelNA],
               [bubble |-> TRUE, aria |-> LabelFour],
               [bubble |-> TRUE, aria |-> LabelThree]>>
    /\ Len(reviews) = 2
    /\ reviews[1].rating = 40 /\ reviews[2].rating = 30

\* C16: the collected sequence never holds more than max_reviews records.
C16_AtMostMaxRecords == Len(reviews) <= max_reviews

\* The scenario of C17: a finished run with target 2 that saw one page, with
\* three cards of which exactly one shows no rating, and no session failure.
C17_Scenario ==
    /\ spc = "done" /\ site = "ratings" /\ failedAt = "none"
    /\ max_reviews = 2
    /\ page = 1 /\ shown = 1
    /\ cards = 3 /\ Len(dom) = 3
    /\ Cardinality({i \in 1..3 : Unrated(dom[i])}) = 1

\* The collected sequence is the two rated cards of page 1, in DOM order.
C17_Collected ==
    /\ Len(reviews) = 2
    /\ reviews[1].username[1] = 1 /\ reviews[2].username[1] = 1
    /\ reviews[1].username[2] < reviews[2].username[2]
    /\ {reviews[1].username[2], reviews[2].username[2]} =
           {i \in 1..3 : ~Unrated(dom[i])}

\* C17, as stated: in the scenario the two rated records are collected in DOM
\* order and the run ends through the "no next page" condition.
C17_EndsByNoNextPage ==
    C17_Scenario => C17_Collected /\ outcome = "returned" /\ ending = "no_next"

\* C17, amended: in the scenario the two rated records are collected in DOM
\* order and the run ends because the target count is reached; the next-page
\* control is never looked for.
C17_EndsByTarget ==
    C17_Scenario =>
        C17_Collected /\ outcome = "returned" /\ ending = "target" /\ control = "none"

\* The scenario with the unrated card between the two rated ones.
C17_Witness == C17_Scenario /\ Unrated(dom[2]) /\ outcome = "returned"

\* C18: within one run no profile page is opened more than once for the same
\* profile link.
C18_NoProfileTwice == \A h \in DOMAIN visits : visits[h] <= 1

\* C19: a run whose session failed while a page was collected or while the
\* next-page control was activated ends by raising.
C19_SessionErrorRaises ==
    (spc = "done" /\ failedAt \in {"collect", "next"}) => outcome = "raised"

\* C20: when go_to_next_page finds no control or a disabled one before the
\* target is reached, the page loop ends; from then on no page is visited and
\* the collected records stay as they are, and the run returns them without
\* raising.
C20_OrderlyPartial ==
    [][/\ (spc = "next" /\ session' = "ok" /\ control' \in {"absent", "disabled"})
              => /\ Len(reviews) < max_reviews
                 /\ spc' = "quit" /\ ending' = "no_next"
                 /\ reviews' = reviews /\ shown' = shown /\ page' = page
                 /\ outcome' = "none"
       /\ ending = "no_next"
              => /\ reviews' = reviews /\ shown' = shown /\ page' = page
                 /\ session' = "ok" => spc' = "done" /\ outcome' = "returned"]_vars

\* A run that returned one record, short of its target of two, after it found
\* the next-page control disabled.
C20_Witness ==
    /\ spc = "done" /\ outcome = "returned" /\ failedAt = "none"
    /\ control = "disabled" /\ ending = "no_next"
    /\ max_reviews = 2 /\ Len(reviews) = 1

\* The states up to PageCollecting(k), in their order.
Chain(k) ==
    <<Phase("Init"), Phase("ConsentResolved"), Phase("AdDismissed"),
      Phase("PrimedByScroll")>> \o [i \in 1..k |-> PageCollecting(i)]

\* Sequence a is an initial part of sequence b.
InitialPart(a, b) == Len(a) <= Len(b) /\ \A i \in 1..Len(a) : a[i] = b[i]

\* The number of times state p was entered.
Entered(p) == Cardinality({i \in 1..Len(phases) : phases[i] = p})

\* The states entered so far follow the fixed order: up to a closing Exhausted
\* they are an initial part of Init, ConsentResolved, AdDismissed,
\* PrimedByScroll, PageCollecting(1), PageCollecting(2), ...; Exhausted is
\* entered at most once and nothing is entered after it; a finished run is in
\* Exhausted; records exist only after the scroll priming.
C21_InOrder ==
    /\ \E k \in 0..Len(phases) :
          \/ InitialPart(phases, Chain(k))
          \/ /\ phases # <<>>
             /\ phases[Len(phases)] = Phase("Exhausted")
             /\ InitialPart(SubSeq(phases, 1, Len(phases) - 1), Chain(k))
    /\ Entered(Phase("Exhausted")) <= 1
    /\ spc = "done" => Entered(Phase("Exhausted")) = 1
    /\ (reviews # <<>> \/ reviews_on_page # <<>>) =>
           Entered(Phase("PrimedByScroll")) = 1

\* The three preparation steps.
Preparation ==
    {Phase("ConsentResolved"), Phase("AdDismissed"), Phase("PrimedByScroll")}

\* C21, as stated: every run goes through the states in the fixed order, and
\* in every finished run each of the three preparation steps happened exactly
\* once.
C21_FixedOrder ==
    /\ C21_InOrder
    /\ spc = "done" => \A p \in Preparation : Entered(p) = 1

\* C21, amended: every run goes through the states in the fixed order; each
\* preparation step happens at most once, and exactly once in every run that
\* gets to the page loop; a run in which driver.get, accept_cookies or
\* quick_scroll raises enters Exhausted from where it is, without the
\* remaining preparation steps and without collecting a page.
C21_FixedOrderUnlessRaised ==
    /\ C21_InOrder
    /\ \A p \in Preparation : Entered(p) <= 1
    /\ (spc = "done" /\ ending # "error") =>
           \A p \in Preparation : Entered(p) = 1
    /\ ending = "error" =>
           /\ outcome = "raised"
           /\ Entered(Phase("PrimedByScroll")) = 0
           /\ Entered(PageCollecting(1)) = 0

\* A run that collected two pages and returned.
C21_Witness ==
    /\ spc = "done" /\ outcome = "returned"
    /\ phases = Chain(2) \o <<Phase("Exhausted")>>

\* Card u was met before card v: on an earlier page, or earlier on one page.
Before(u, v) == u[1] < v[1] \/ (u[1] = v[1] /\ u[2] < v[2])

\* C26: the page counter is the page of the site being shown, so the pages
\* are visited one after the other; in the collected sequence, and in the
\* list of the page being scraped, every record comes from a card met before
\* the cards of the records behind it.
C26_EncounterOrder ==
    /\ page >= 1 => shown = page
    /\ \A i \in 1..Len(reviews) : reviews[i].username[1] \in 1..page
    /\ \A i, j \in 1..Len(reviews) :
          i < j => Before(reviews[i].username, reviews[j].username)
    /\ \A i, j \in 1..Len(reviews_on_page) :
          i < j => Before(reviews_on_page[i].username, reviews_on_page[j].username)

\* One record of page 1, then two records of page 2.
C26_Witness ==
    /\ Len(reviews) = 3
    /\ reviews[1].username = <<1, 1>>
    /\ reviews[2].username = <<2, 1>>
    /\ reviews[3].username = <<2, 2>>

\* C27: with the session alive, accept_cookies returns and the run goes on to
\* the ad dismissal, whatever the cookie button does.
C27_ConsentUnconditional ==
    [][(spc = "cookies" /\ session' = "ok")
          => /\ spc' = "ads"
             /\ outcome' = "none"
             /\ phases' = Append(phases, Phase("ConsentResolved"))]_vars

\* The close control of a selector was found and is displayed.
Displayed(o) == o \in {"click_raises", "clickable"}

\* The first selector tried, in list order, that satisfies P; 0 when none does.
FirstWith(P(_)) ==
    IF \E i \in 1..Len(ad_seen) : P(ad_seen[i])
    THEN CHOOSE i \in 1..Len(ad_seen) :
             P(ad_seen[i]) /\ \A j \in 1..(i - 1) : ~P(ad_seen[j])
    ELSE 0

\* What C28 says in any case: the selectors are tried in list order, at most
\* one control is clicked, no selector is tried after the click, and without a
\* click the whole list was tried and the step ended without error.
C28_AtMostOne ==
    /\ Len(clicks) <= 1
    /\ spc = "scroll" =>
          /\ outcome = "none"
          /\ phases[Len(phases)] = Phase("AdDismissed")
          /\ clicks # <<>> => Len(ad_seen) = clicks[1]
          /\ clicks = <<>> => Len(ad_seen) = Len(close_selectors)

\* C28, as stated: the control clicked is the first one, in list order, that
\* was found and displayed.
C28_FirstDisplayedWins ==
    /\ C28_AtMostOne
    /\ spc = "scroll" =>
          /\ clicks # <<>> => clicks[1] = FirstWith(Displayed)
          /\ clicks = <<>> => FirstWith(Displayed) = 0

\* C28, amended: the control clicked is the first one, in list order, that
\* was found, is displayed and whose click did not raise; a candidate whose
\* click raises is passed over like a missing one.
C28_FirstClickableWins ==
    /\ C28_AtMostOne
    /\ spc = "scroll" =>
          /\ clicks # <<>> => clicks[1] = FirstWith(Activated)
          /\ clicks = <<>> => FirstWith(Activated) = 0

\* The third selector was clicked, after a missing and a hidden candidate.
C28_Witness ==
    /\ spc = "scroll"
    /\ ad_seen = <<"absent", "hidden", "clickable">>
    /\ clicks = <<3>>

\* C29: the page counter goes up only by one, in go_to_next_page, after the
\* click on an enabled control went through and the pacing delay of 2 to 3
\* seconds was made; a control that is absent, disabled or whose click failed
\* leaves the counter and the page shown as they are; scrape_page is entered
\* for a page that was not collected before.
C29_AdvanceAfterClick ==
    [][/\ (page >= 1 /\ page' # page)
              => /\ spc = "next" /\ spc' = "loop"
                 /\ control' = "enabled"
                 /\ page' = page + 1 /\ shown' = shown + 1
                 /\ naps' = <<[at |-> "next_page", lo |-> 20, hi |-> 30]>>
       /\ (spc = "next" /\ control' # "enabled")
              => page' = page /\ shown' = shown /\ spc' = "quit"
       /\ (spc = "loop" /\ spc' = "find")
              => /\ shown = page
                 /\ \A i \in 1..Len(phases) : phases[i] # PageCollecting(page)]_vars

\* The run is on page 2, after the click and the delay.
C29_Witness ==
    /\ spc = "loop" /\ page = 2 /\ shown = 2
    /\ control = "enabled"
    /\ naps = <<[at |-> "next_page", lo |-> 20, hi |-> 30]>>

\* C30: every delay of a run is drawn from a range with min < max.
C30_DelaysDrawn == \A i \in 1..Len(naps) : naps[i].lo < naps[i].hi

----------------------------------------------------------------------------
(* Properties of the rating values.                                         *)

\* C36: every record a run has collected has a rating within [0, 5] (0 to 50
\* tenths), whatever the rating labels of the cards say.
C36_RatingWithinScale ==
    \A i \in 1..Len(reviews) : reviews[i].rating >= 0 /\ reviews[i].rating <= 50

----------------------------------------------------------------------------
(* Properties of successive scraper runs.                                   *)

\* C31: every handler attempt makes a new scraper instance whose reviews and
\* location_cache start empty: a run holds no more records than cards it found
\* itself and no cache entry for a profile it did not open itself, whatever
\* the instance before it had collected.
C31_NoCarryOver ==
    /\ spc = "start" => reviews = <<>> /\ DOMAIN location_cache = {}
    /\ Len(reviews) <= seen
    /\ \A h \in DOMAIN location_cache : visits[h] > 0

\* A second run that collected nothing and visited no profile, after a run
\* that raised with records collected and locations cached.
C31_Witness ==
    /\ attempt = 2
    /\ left
    /\ spc = "done"
    /\ seen > 0
    /\ reviews = <<>>
    /\ DOMAIN location_cache = {}

----------------------------------------------------------------------------
(* Properties of the location of a record.                                  *)

\* The profile tier of a lookup failed: the card has no profile link, or the
\* link is not cached and its page did not open or did not show the heading.
ProfileTierFailed(l) ==
    \/ l.href = NULL
    \/ ~l.cached /\ l.visit \in {"no_heading", "no_window"}

\* C37: the location of a card is the inline one when there is one, and then
\* no profile page is opened and the cache is left as it was; the cache is
\* read and a profile page opened only without an inline location; the
\* location is "Unknown" exactly when there is no inline location and the
\* profile tier failed; and the record of the card is built in every case.
C37_TwoTiers ==
    lookup # NoLookup =>
        /\ lookup.inline # NULL =>
              /\ lookup.location = lookup.inline
              /\ lookup.visit = "none"
              /\ location_cache = lookup.before
        /\ (lookup.visit # "none" \/ location_cache # lookup.before) =>
              lookup.inline = NULL
        /\ (lookup.inline = NULL /\ lookup.cached) =>
              lookup.location = lookup.before[lookup.href] /\ lookup.visit = "none"
        /\ lookup.location = "Unknown" <=>
              (lookup.inline = NULL /\ ProfileTierFailed(lookup))
        /\ spc = "cards" /\ dom # <<>>
        /\ extract_rating(dom[Len(dom)]) # NoRating =>
              /\ reviews_on_page # <<>>
              /\ reviews_on_page[Len(reviews_on_page)].location = lookup.location

\* Both tiers failed for a card (no inline location, the profile page did not
\* show the heading) and its record was kept with the default location.
C37_Witness ==
    /\ lookup # NoLookup
    /\ lookup.inline = NULL
    /\ lookup.href # NULL
    /\ lookup.visit = "no_heading"
    /\ reviews_on_page # <<>>
    /\ reviews_on_page[Len(reviews_on_page)].location = "Unknown"

----------------------------------------------------------------------------
(* Termination of a run.                                                    *)

\* A bound on the number of steps a run has left: those of the pages after the
\* one shown, those of the page being scraped, and before the page loop those
\* of the scroll loop, of the selectors of the ad popup and of the calls
\* before them.
PageSteps == MaxCards + 5
LoopSteps == (MaxPages - shown) * PageSteps
BeforeLoop == MaxPages * PageSteps + MaxCards + 7
StepsLeft ==
    CASE spc = "done" -> 0
      [] spc = "quit" -> 1
      [] spc = "next" -> LoopSteps + 3
      [] spc = "extend" -> LoopSteps + 4
      [] spc = "cards" -> LoopSteps + 4 + (cards - Len(dom))
      [] spc = "find" -> LoopSteps + MaxCards + 5
      [] spc = "loop" -> LoopSteps + MaxCards + 6
      [] spc = "scrolling" ->
            BeforeLoop + (IF current < total_height THEN total_height - current ELSE 0)
      [] spc = "scroll" -> BeforeLoop + MaxHeight + 1
      [] spc = "ads" ->
            BeforeLoop + MaxHeight + 2 + (Len(close_selectors) - Len(ad_seen))
      [] spc = "cookies" -> BeforeLoop + MaxHeight + Len(close_selectors) + 3
      [] spc = "start" -> BeforeLoop + MaxHeight + Len(close_selectors) + 4

\* A run can take a step: one of the steps of run() is enabled (for the loop
\* over the cards, which always has a card, a visit and an outcome to go on
\* with, there is a card left).
CanStep ==
    \/ ENABLED (Load \/ accept_cookies \/ close_ad_popup \/ quick_scroll
                  \/ ScrollLoop \/ LoopTest \/ FindCards \/ Extend
                  \/ go_to_next_page \/ Quit)
    \/ /\ spc = "cards" /\ Len(dom) < cards
       /\ CardsOf(site) # {}
       /\ \A card \in CardsOf(site) : VisitsOf(card, location_cache) # {}

\* C38: every run ends, whatever max_reviews is and whether or not a page has
\* a rated card: a run that is not over can take a step, every step lowers
\* the number of steps left, which is never negative, and a run that is over
\* left the page loop by the target, by the lack of an enabled next-page
\* control or by an error; every step of the scroll loop moves the position up
\* towards the height read at its start.
C38_RunTerminates ==
    /\ [](/\ StepsLeft >= 0
          /\ spc # "done" => CanStep
          /\ spc = "done" => ending \in {"target", "no_next", "error"})
    /\ [][/\ StepsLeft' < StepsLeft
          /\ (spc = "scrolling" /\ spc' = "scrolling")
                => /\ current < total_height
                   /\ current' > current
                   /\ total_height' = total_height]_vars

\* A run over all pages of a site without a rated card, ended by the lack of
\* a next page with nothing collected.
C38_Witness ==
    /\ spc = "done"
    /\ outcome = "returned"
    /\ ending = "no_next"
    /\ max_reviews > 0
    /\ shown = MaxPages
    /\ seen > 0
    /\ reviews = <<>>

----------------------------------------------------------------------------
(* The order and the notification of a task.                                *)

\* C39: whenever a task is completed, the order named in its payload is
\* 'completed' and has a report_id.
C39_CompletedTaskCompletedOrder ==
    \A i \in Ids :
        tasks[i].status = COMPLETED
            => /\ orders[tasks[i].payload].status = "completed"
               /\ orders[tasks[i].payload].report_id # NULL

\* C40: over all attempts of a task the report email is sent at most once.
C40_NotifiedAtMostOnce == \A i \in DOMAIN sent : sent[i] <= 1

----------------------------------------------------------------------------
(* The polling of the worker loop.                                          *)

\* The task is the oldest pending row, or one of the oldest.
OldestPending(ts, id) ==
    /\ ts[id].status = PENDING
    /\ \A j \in DOMAIN ts :
          ts[j].status = PENDING => ts[id].created_at <= ts[j].created_at

\* C32: the worker goes to sleep exactly when get_pending_task returned None:
\* it enters the sleep only from a poll that found no pending row, a poll that
\* finds one goes on with it, and after a task (completed, failed for good or
\* requeued) the loop polls again without a sleep, so that a requeued task
\* that is the oldest pending row is among the rows the next poll returns.
C32_SleepsOnlyOnEmptyPoll ==
    [][/\ (pc # "sleep" /\ pc' = "sleep")
             => (pc = "poll" /\ PendingFirst(tasks) = {} /\ task' = NoTask)
       /\ (pc = "poll" /\ pc' # "poll")
             => /\ pc' = "sleep" <=> PendingFirst(tasks) = {}
                /\ pc' = "got" <=> PendingFirst(tasks) # {}
       /\ (pc = "poll" /\ pc' = "got") => task'.id \in PendingFirst(tasks)
       /\ (pc = "sleep" /\ pc' # "sleep") => pc' = "poll"
       /\ (pc = "run" /\ pc' # "run") => pc' \in {"poll", "failed"}
       /\ (pc = "failed" /\ pc' # "failed") => pc' = "poll"
       /\ (pc = "failed" /\ pc' = "poll" /\ RetryAllowed(task))
             => /\ tasks'[task.id].status = PENDING
                /\ PendingFirst(tasks') # {}
                /\ OldestPending(tasks', task.id)
                      => task.id \in PendingFirst(tasks')]_vars

\* A requeued task has been returned by the poll that followed its requeue:
\* the worker holds it again, with one failure on its row.
C32_Witness ==
    /\ pc = "got"
    /\ task.id \in Ids
    /\ tasks[task.id].retries = 1
    /\ tasks[task.id].status = PENDING
    /\ outcomes[task.id] = <<"raise">>

----------------------------------------------------------------------------
(* The requeue.                                                             *)

\* The columns of a row but its status.
Kept(row) ==
    [task_type |-> row.task_type, payload |-> row.payload,
     retries |-> row.retries, result |-> row.result, error |-> row.error,
     created_at |-> row.created_at]

\* C35: the requeue sets the status of the failed task to pending and changes
\* nothing else: the other columns of the row, its id and every other row are
\* as before, so the row keeps its place in the order of created_at.
C35_RequeueChangesStatusOnly ==
    [][(pc = "failed" /\ pc' # "failed" /\ RetryAllowed(task))
          => /\ DOMAIN tasks' = DOMAIN tasks
             /\ tasks[task.id].status = FAILED
             /\ tasks'[task.id].status = PENDING
             /\ Kept(tasks'[task.id]) = Kept(tasks[task.id])
             /\ \A j \in DOMAIN tasks : j # task.id => tasks'[j] = tasks[j]
             /\ \A j \in DOMAIN tasks :
                   (tasks'[task.id].created_at <= tasks'[j].created_at)
                      = (tasks[task.id].created_at <= tasks[j].created_at)
             /\ seq' = seq]_vars

\* A requeued task beside another one: pending again, with the failure
\* count and the error of its failed attempt.
C35_Witness ==
    /\ pc = "poll"
    /\ Len(tasks) = 2
    /\ \E i \in Ids :
          /\ tasks[i].status = PENDING
          /\ tasks[i].retries = 1
          /\ tasks[i].error # NULL
          /\ tasks[i].result = NULL

----------------------------------------------------------------------------
(* The status updates applied twice.                                        *)

\* The calls of update_task_status the worker makes: mark_processing,
\* mark_completed with the handler's result, mark_failed with an error
\* message.
Marks ==
    {[status |-> PROCESSING, result |-> NULL, error |-> NULL],
     [status |-> COMPLETED, result |-> HandlerResult, error |-> NULL],
     [status |-> FAILED, result |-> NULL, error |-> "ValueError: Unknown task type: other"]}

\* One call, and the same call made twice in a row.
Once(ts, id, m) == update_task_status(ts, id, m.status, m.result, m.error)
Twice(ts, id, m) == Once(Once(ts, id, m), id, m)

\* C34: a status update made twice in a row leaves the table as the same
\* update made once does (status, result, error and retries of the row).
C34_MarksIdempotent ==
    \A i \in Ids : \A m \in Marks : Twice(tasks, i, m) = Once(tasks, i, m)

\* C34 (amended): a status update made twice in a row leaves the status, the
\* result and the error of the row, and every other row, as the same update
\* made once does; mark_processing and mark_completed leave retries too, and
\* mark_failed adds one to retries each time it is applied.
C34_IdempotentButForRetries ==
    \A i \in Ids : \A m \in Marks :
        /\ Once(tasks, i, m)[i].status = m.status
        /\ Twice(tasks, i, m) =
              [Once(tasks, i, m) EXCEPT
                  ![i].retries = IF m.status = FAILED THEN @ + 1 ELSE @]

\* A row that mark_failed has just been applied to for the second time (in
\* its second attempt), with an error on it.
C34_Witness ==
    /\ pc = "failed"
    /\ \E i \in Ids :
          /\ tasks[i].status = FAILED
          /\ tasks[i].retries = 2
          /\ tasks[i].error # NULL

----------------------------------------------------------------------------
(* The worker restarted after a crash.                                      *)

\* A row in status processing that no handler is running for.
Orphaned(i) ==
    /\ tasks[i].status = PROCESSING
    /\ ~(pc = "run" /\ task.id = i)

\* C33: a task left in status processing by a crash of the worker stays as it
\* is for ever: no poll returns it, no step requeues it or changes its row.
\* A crash between the dequeue and the processing update leaves the table as
\* it was, the task pending and still among the rows the next poll may
\* return; a crash during the handler leaves the row in status processing.
C33_ProcessingOrphaned ==
    /\ [](pc = "got" => task.id \in PendingFirst(tasks))
    /\ [][/\ \A i \in Ids :
                Orphaned(i)
                   => /\ tasks'[i] = tasks[i]
                      /\ task'.id # i
                      /\ i \notin PendingFirst(tasks')
          /\ (pc = "got" /\ pc' = "poll")
                => /\ tasks' = tasks
                   /\ tasks'[task.id].status = PENDING
                   /\ task.id \in PendingFirst(tasks')
          /\ (pc = "run" /\ pc' = "poll" /\ step # "return")
                => /\ tasks' = tasks
                   /\ tasks'[task.id].status = PROCESSING
                   /\ task' = NoTask]_vars

\* The worker has crashed while it ran task 1, has been restarted, and has
\* since completed task 2: task 1 is still processing, with no result, no
\* error and no failure counted.
C33_Witness ==
    /\ Len(tasks) = 2
    /\ Orphaned(1)
    /\ tasks[1].retries = 0
    /\ tasks[1].result = NULL
    /\ tasks[1].error = NULL
    /\ tasks[2].status = COMPLETED
    /\ pc = "sleep"

====
